---- MODULE Spec2Model ----
(***************************************************************************)
(* Model of benchmarks/benchmark_llm.py: the run orchestrator (main), the  *)
(* worker pool draining an asyncio.Queue under an asyncio.Semaphore, the   *)
(* request executor (make_request) and the streaming reader                *)
(* (process_stream).                                                       *)
(*                                                                         *)
(* Python's None is modelled as the empty tuple <<>>, an optional value v  *)
(* as <<v>>, and the tuple make_request returns as a 4-tuple, so that the  *)
(* truth test `if result:` is Len(result) > 0.  The queue's sentinel None  *)
(* is the entry Sentinel.                                                  *)
(*                                                                         *)
(* Every await of a worker is a step boundary, and so is each statement of *)
(* a worker that touches the shared queue or result list: the event loop's *)
(* interleavings are among those of the model.  main runs from the return  *)
(* of the preflight request to `await queue.join()` without suspending     *)
(* (the queue is unbounded and create_task only schedules), so that block  *)
(* is one step.                                                            *)
(***************************************************************************)
EXTENDS Integers, Sequences, FiniteSets, TLC

\* Bounds of the model: the largest --num-requests and --concurrency tried.
MaxRequests == 3
MaxConcurrency == 2

\* Bounds of one request: fragments in a stream, clock advance while one
\* awaited call is pending, and the largest request_timeout tried.
MaxFragments == 3
MaxDelay == 1
MaxTimeout == 2

None == <<>>
Sentinel == -1

VARIABLES
    num_requests,     \* main's parameter num_requests (N)
    concurrency,      \* main's parameter concurrency (C)
    mainpc,           \* position of main
    preflight,        \* optional: did the preflight make_request return a
                      \* result (TRUE) or None (FALSE)
    semaphore,        \* asyncio.Semaphore._value
    queue,            \* asyncio.Queue contents, head first
    unfinished,       \* asyncio.Queue._unfinished_tasks
    results,          \* the shared list `results`
    wpc,              \* position of each worker task
    task_id,          \* each worker's local task_id
    result,           \* each worker's local result
    dequeued,         \* per worker, the entries queue.get() returned to it
    inflight,         \* task ids whose make_request call has not returned
    absent,           \* task ids whose make_request call returned None
    failed,           \* task ids logged by "Request {task_id} failed"
    requests_issued,  \* number of make_request calls started
    report,           \* optional: what main returned
    main_start_time,  \* optional: main's start_time
    main_end_time,    \* optional: main's end_time
    \* one call of make_request, followed fragment by fragment
    stream,           \* the fragments the service sends for the request
    request_timeout,  \* make_request's parameter request_timeout
    now,              \* the clock time.time() reads
    mrpc,             \* position of make_request
    start_time,       \* make_request's start_time
    consume_start,    \* the clock when asyncio.wait_for was entered
    pos,              \* number of fragments the async for has received
    first_token_time, \* process_stream's first_token_time
    total_tokens,     \* process_stream's total_tokens
    mr_result,        \* optional: what make_request returned
    mr_log,           \* optional: what make_request logged
    arrivals          \* history: the clock at each fragment process_stream got

runvars == <<num_requests, concurrency, mainpc, preflight, semaphore, queue,
             unfinished, results, wpc, task_id, result, dequeued, inflight,
             absent, failed, requests_issued, report, main_start_time,
             main_end_time>>

clockvars == <<main_start_time, main_end_time>>

streamvars == <<stream, request_timeout, now, mrpc, start_time,
                consume_start, pos, first_token_time, total_tokens,
                mr_result, mr_log, arrivals>>

vars == <<runvars, streamvars>>

AllWorkers == 1..MaxConcurrency
Workers == 1..concurrency
Tasks == 0..(num_requests - 1)

RECURSIVE SumTokens(_)
SumTokens(rs) ==
    IF rs = <<>> THEN 0 ELSE Head(rs)[1] + SumTokens(Tail(rs))

RECURSIVE Repeat(_, _)
Repeat(x, n) == IF n <= 0 THEN <<>> ELSE <<x>> \o Repeat(x, n - 1)

RECURSIVE Range(_)
Range(n) == IF n <= 0 THEN <<>> ELSE Range(n - 1) \o <<n - 1>>

(***************************************************************************)
(* make_request, from the point where the collaborator has answered.  resp *)
(* records what the client did (kind: "ok", "timeout" for                  *)
(* asyncio.TimeoutError, "error" for any other exception) and the clock    *)
(* readings and count process_stream produced.  tokens_per_second is the   *)
(* quotient kept as <<numerator, denominator>>.                            *)
(***************************************************************************)
Raised == <<"raised">>

\* The truth value of `first_token_time` (None and 0.0 are false).
truthy_time(t) == t # None /\ t[1] # 0

make_request_uncaught(resp) ==
    IF resp.kind = "ok"
    THEN LET elapsed_time == resp.end_time - resp.start_time
             ttft == IF truthy_time(resp.first_token_time)
                     THEN <<resp.first_token_time[1] - resp.start_time>>
                     ELSE None
             tokens_per_second == IF elapsed_time > 0
                                  THEN <<resp.total_tokens, elapsed_time>>
                                  ELSE <<0, 1>>
         IN  <<resp.total_tokens, elapsed_time, tokens_per_second, ttft>>
    ELSE IF resp.kind = "timeout" THEN None
    ELSE Raised

make_request(resp) ==
    IF resp.kind = "ok"
    THEN LET elapsed_time == resp.end_time - resp.start_time
             ttft == IF truthy_time(resp.first_token_time)
                     THEN <<resp.first_token_time[1] - resp.start_time>>
                     ELSE None
             tokens_per_second == IF elapsed_time > 0
                                  THEN <<resp.total_tokens, elapsed_time>>
                                  ELSE <<0, 1>>
         IN  <<resp.total_tokens, elapsed_time, tokens_per_second, ttft>>
    ELSE IF resp.kind = "timeout" THEN None
    ELSE None

\* What the service does with one request of the run, as seen by make_request.
Responses ==
    { [kind |-> "ok", start_time |-> 1, first_token_time |-> <<2>>,
       total_tokens |-> 1, end_time |-> 3],
      [kind |-> "timeout", start_time |-> 1, first_token_time |-> None,
       total_tokens |-> 0, end_time |-> 1],
      [kind |-> "error", start_time |-> 1, first_token_time |-> None,
       total_tokens |-> 0, end_time |-> 1] }

\* The truth value of `if result:`; a tuple is true unless it is empty.
truthy_negated(r) == Len(r) = 0

truthy_always(r) == TRUE

truthy(r) == Len(r) > 0

\* preflight_check: result is not None
preflight_check_ignored(r) == TRUE

preflight_check(r) == r # None

(***************************************************************************)
(* The metrics main computes.  Numbers that main divides are kept as exact *)
(* quotients <<numerator, denominator>> with a positive denominator; the   *)
(* integer 0 of an `else 0` is <<0, 1>>.                                   *)
(***************************************************************************)
Rat(n) == <<n, 1>>
RatLeq(a, b) == a[1] * b[2] <= b[1] * a[2]
RatEq(a, b) == a[1] * b[2] = b[1] * a[2]
RatAdd(a, b) == <<a[1] * b[2] + b[1] * a[2], a[2] * b[2]>>

RECURSIVE RatSum(_)
RatSum(vs) == IF vs = <<>> THEN Rat(0) ELSE RatAdd(Head(vs), RatSum(Tail(vs)))

RECURSIVE Insert(_, _)
Insert(x, vs) ==
    IF vs = <<>> THEN <<x>>
    ELSE IF RatLeq(x, Head(vs)) THEN <<x>> \o vs
    ELSE <<Head(vs)>> \o Insert(x, Tail(vs))

RECURSIVE Sort(_)
Sort(vs) == IF vs = <<>> THEN <<>> ELSE Insert(Head(vs), Sort(Tail(vs)))

\* numpy.percentile(values, q) for a non-empty list: linear interpolation
\* between the two nearest ranks of the sorted values.
numpy_percentile(values, q) ==
    LET v == Sort(values)
        k == q * (Len(v) - 1)
        lo == (k \div 100) + 1
        hi == IF lo < Len(v) THEN lo + 1 ELSE lo
        r == k % 100
    IN  <<v[lo][1] * v[hi][2] * (100 - r) + v[hi][1] * v[lo][2] * r,
          100 * v[lo][2] * v[hi][2]>>

\* The rank calculate_percentile asks numpy for (lines 116-118).
percentile_rank_same_tail(percentile, reverse) == percentile

percentile_rank(percentile, reverse) ==
    IF reverse THEN 100 - percentile ELSE percentile

\* calculate_percentile (lines 113-118).
calculate_percentile_unguarded(values, percentile, reverse) ==
    IF values = <<>> THEN Raised
    ELSE numpy_percentile(values, percentile_rank(percentile, reverse))

calculate_percentile(values, percentile, reverse) ==
    IF values = <<>> THEN None
    ELSE numpy_percentile(values, percentile_rank(percentile, reverse))

\* sum(values) / len(values) if values else 0 (lines 194-200).
average(values) ==
    IF values # <<>>
    THEN LET t == RatSum(values) IN <<t[1], t[2] * Len(values)>>
    ELSE Rat(0)

\* One statistic block of the report (lines 202-238).
block(values, reverse) ==
    [average |-> average(values),
     p50 |-> calculate_percentile(values, 50, reverse),
     p95 |-> calculate_percentile(values, 95, reverse),
     p99 |-> calculate_percentile(values, 99, reverse)]

\* The lists main builds from results (lines 184-188).
latencies(rs) == [i \in 1..Len(rs) |-> Rat(rs[i][2])]
tokens_per_second_list(rs) == [i \in 1..Len(rs) |-> rs[i][3]]
ttft_list(rs) ==
    LET with == SelectSeq(rs, LAMBDA r : r[4] # None)
    IN  [i \in 1..Len(with) |-> Rat(with[i][4][1])]

\* successful_requests / total_elapsed_time if total_elapsed_time > 0 else 0
requests_per_second_unguarded(successful_requests, total_elapsed_time) ==
    <<successful_requests, total_elapsed_time>>

requests_per_second(successful_requests, total_elapsed_time) ==
    IF total_elapsed_time > 0
    THEN <<successful_requests, total_elapsed_time>>
    ELSE Rat(0)

\* The report main returns (lines 182-239), without the fields that repeat
\* its arguments model, request_timeout and max_completion_tokens.
\* Unpacking an entry that is not a 4-tuple (line 183) raises.
main_report(n, c, rs, total_elapsed_time) ==
    IF \E i \in DOMAIN rs : Len(rs[i]) # 4 THEN Raised ELSE
    [total_requests |-> n,
     successful_requests |-> Len(rs),
     concurrency |-> c,
     total_time |-> total_elapsed_time,
     requests_per_second |-> requests_per_second(Len(rs), total_elapsed_time),
     total_completion_tokens |-> SumTokens(rs),
     latency |-> block(latencies(rs), FALSE),
     tokens_per_second |-> block(tokens_per_second_list(rs), TRUE),
     time_to_first_token |-> block(ttft_list(rs), FALSE)]

\* How far time.time() may have moved between two readings; it is the wall
\* clock, which can be set back.
ClockSteps == -1..MaxDelay

\* The state of main before it runs, for given parameters.
RunInit(n, c) ==
    /\ num_requests = n
    /\ concurrency = c
    /\ mainpc = "start"
    /\ preflight = None
    /\ semaphore = 0
    /\ queue = <<>>
    /\ unfinished = 0
    /\ results = <<>>
    /\ wpc = [w \in AllWorkers |-> "uncreated"]
    /\ task_id = [w \in AllWorkers |-> None]
    /\ result = [w \in AllWorkers |-> None]
    /\ dequeued = [w \in AllWorkers |-> <<>>]
    /\ inflight = {}
    /\ absent = {}
    /\ failed = {}
    /\ requests_issued = 0
    /\ report = None
    /\ main_start_time = None
    /\ main_end_time = None

\* The state of one make_request call before it runs.
RequestInit(s, t) ==
    /\ stream = s
    /\ request_timeout = t
    /\ now = 1
    /\ mrpc = "start"
    /\ start_time = None
    /\ consume_start = None
    /\ pos = 0
    /\ first_token_time = None
    /\ total_tokens = 0
    /\ mr_result = None
    /\ mr_log = None
    /\ arrivals = <<>>

Init ==
    /\ \E n \in 0..MaxRequests, c \in 0..MaxConcurrency : RunInit(n, c)
    /\ RequestInit(<<>>, 1)

\* main, up to the preflight request being in flight (lines 135-139, 122).
MainStart ==
    /\ mainpc = "start"
    /\ mainpc' = "preflight"
    /\ requests_issued' = requests_issued + 1
    /\ UNCHANGED <<streamvars, clockvars>>
    /\ UNCHANGED <<num_requests, concurrency, preflight, semaphore, queue,
                   unfinished, results, wpc, task_id, result, dequeued,
                   inflight, absent, failed, report>>

\* asyncio.Semaphore(concurrency) (line 145).
semaphore_value_short(c) == c - 1

semaphore_value(c) == c

\* The queue after lines 149-155: the task indices, then the sentinels.
build_queue_sentinels_first(n, c) == Repeat(Sentinel, c) \o Range(n)

build_queue(n, c) == Range(n) \o Repeat(Sentinel, c)

\* The preflight request returns.  On failure main logs and returns None;
\* otherwise it builds the semaphore, the queue (tasks, then sentinels) and
\* the worker tasks (lines 145-171), which cannot run before main suspends.
PreflightReturn ==
    /\ mainpc = "preflight"
    /\ \E resp \in Responses :
         LET r == make_request(resp) IN
         /\ preflight' = <<r # None>>
         /\ IF ~preflight_check(r)
            THEN /\ mainpc' = "aborted"
                 /\ UNCHANGED <<semaphore, queue, unfinished, results, wpc>>
            ELSE /\ semaphore' = semaphore_value(concurrency)
                 /\ queue' = build_queue(num_requests, concurrency)
                 /\ unfinished' = Len(queue')
                 /\ results' = <<>>
                 /\ wpc' = [w \in AllWorkers |->
                              IF w \in Workers THEN "acquire" ELSE "uncreated"]
                 /\ mainpc' = "created"
    /\ UNCHANGED <<streamvars, clockvars>>
    /\ UNCHANGED <<num_requests, concurrency, task_id, result, dequeued,
                   inflight, absent, failed, requests_issued, report>>

\* start_time = time.time() (line 173); main suspends in queue.join().
RecordStart ==
    /\ mainpc = "created"
    /\ main_start_time' = <<now>>
    /\ mainpc' = "join"
    /\ UNCHANGED <<streamvars, main_end_time>>
    /\ UNCHANGED <<num_requests, concurrency, preflight, semaphore, queue,
                   unfinished, results, wpc, task_id, result, dequeued,
                   inflight, absent, failed, requests_issued, report>>

\* The event loop runs a worker only while main is suspended in an await.
main_suspended_anywhere == TRUE

main_suspended == mainpc \in {"preflight", "join", "gather"}

\* queue.join() returns once every entry put has been task_done()'d.
join_done_before_sentinels == unfinished <= concurrency

join_done == unfinished = 0

MainJoin ==
    /\ mainpc = "join"
    /\ join_done
    /\ mainpc' = "gather"
    /\ UNCHANGED <<streamvars, clockvars>>
    /\ UNCHANGED <<num_requests, concurrency, preflight, semaphore, queue,
                   unfinished, results, wpc, task_id, result, dequeued,
                   inflight, absent, failed, requests_issued, report>>

\* asyncio.gather(*workers) returns once every worker task has finished.
gather_skipped == TRUE

gather_done == \A w \in Workers : wpc[w] = "done"

\* gather returns; main reads the end time, computes and returns the report.
MainGather ==
    /\ mainpc = "gather"
    /\ gather_done
    /\ mainpc' = "reported"
    /\ \E d \in ClockSteps :
         /\ main_end_time' = <<main_start_time[1] + d>>
         /\ report' = <<main_report(num_requests, concurrency, results,
                                   main_end_time'[1] - main_start_time[1])>>
    /\ UNCHANGED <<streamvars, main_start_time>>
    /\ UNCHANGED <<num_requests, concurrency, preflight, semaphore, queue,
                   unfinished, results, wpc, task_id, result, dequeued,
                   inflight, absent, failed, requests_issued>>

\* async with semaphore: __aenter__ (line 96).
Acquire(w) ==
    /\ wpc[w] = "acquire"
    /\ main_suspended
    /\ semaphore > 0
    /\ semaphore' = semaphore - 1
    /\ wpc' = [wpc EXCEPT ![w] = "get"]
    /\ UNCHANGED <<streamvars, clockvars>>
    /\ UNCHANGED <<num_requests, concurrency, mainpc, preflight, queue,
                   unfinished, results, task_id, result, dequeued, inflight,
                   absent, failed, requests_issued, report>>

\* The worker calls make_request and awaits it (lines 101-104, 58-67).
StartRequestDetached(w, t) ==
    /\ wpc' = [wpc EXCEPT ![w] = "ack"]
    /\ inflight' = inflight \cup {t}
    /\ requests_issued' = requests_issued + 1
    /\ UNCHANGED <<unfinished, result, results, absent, failed, semaphore>>

StartRequest(w, t) ==
    /\ wpc' = [wpc EXCEPT ![w] = "request"]
    /\ inflight' = inflight \cup {t}
    /\ requests_issued' = requests_issued + 1
    /\ UNCHANGED <<unfinished, result, results, absent, failed, semaphore>>

\* The sentinel branch (lines 98-100): task_done() and break.
OnSentinelContinue(w) ==
    /\ unfinished' = unfinished - 1
    /\ wpc' = [wpc EXCEPT ![w] = "release"]
    /\ UNCHANGED <<inflight, requests_issued, result, results, absent, failed,
                   semaphore>>

OnSentinel(w) ==
    /\ unfinished' = unfinished - 1
    /\ wpc' = [wpc EXCEPT ![w] = "exit"]
    /\ UNCHANGED <<inflight, requests_issued, result, results, absent, failed,
                   semaphore>>

\* task_id = await queue.get() (line 97) and what follows without an await:
\* on the sentinel task_done() and break; otherwise the request is issued.
Get(w) ==
    /\ wpc[w] = "get"
    /\ queue # <<>>
    /\ queue' = Tail(queue)
    /\ dequeued' = [dequeued EXCEPT ![w] = Append(@, Head(queue))]
    /\ IF Head(queue) = Sentinel
       THEN /\ task_id' = [task_id EXCEPT ![w] = None]
            /\ OnSentinel(w)
       ELSE /\ task_id' = [task_id EXCEPT ![w] = <<Head(queue)>>]
            /\ StartRequest(w, Head(queue))
    /\ UNCHANGED <<streamvars, clockvars>>
    /\ UNCHANGED <<num_requests, concurrency, mainpc, preflight, report>>

\* make_request returns to the worker (line 102).  An exception leaving
\* make_request would leave the async with block, releasing the permit, and
\* end the worker task.
RequestReturn(w) ==
    /\ wpc[w] = "request"
    /\ \E resp \in Responses :
         LET r == make_request(resp) IN
         IF r = Raised
         THEN /\ wpc' = [wpc EXCEPT ![w] = "crashed"]
              /\ semaphore' = semaphore + 1
              /\ UNCHANGED <<result, absent>>
         ELSE /\ wpc' = [wpc EXCEPT ![w] = "returned"]
              /\ result' = [result EXCEPT ![w] = r]
              /\ absent' = IF r = None THEN absent \cup {task_id[w][1]}
                           ELSE absent
              /\ UNCHANGED semaphore
    /\ inflight' = inflight \ {task_id[w][1]}
    /\ UNCHANGED <<streamvars, clockvars>>
    /\ UNCHANGED <<num_requests, concurrency, mainpc, preflight, queue,
                   unfinished, results, task_id, dequeued, failed,
                   requests_issued, report>>

\* if result: results.append(result) else: logging.warning (lines 105-108).
Handle(w) ==
    /\ wpc[w] = "returned"
    /\ IF truthy(result[w])
       THEN /\ results' = Append(results, result[w])
            /\ UNCHANGED failed
       ELSE /\ failed' = failed \cup {task_id[w][1]}
            /\ UNCHANGED results
    /\ wpc' = [wpc EXCEPT ![w] = "ack"]
    /\ UNCHANGED <<streamvars, clockvars>>
    /\ UNCHANGED <<num_requests, concurrency, mainpc, preflight, semaphore,
                   queue, unfinished, task_id, result, dequeued, inflight,
                   absent, requests_issued, report>>

\* queue.task_done() (line 109).
Ack(w) ==
    /\ wpc[w] = "ack"
    /\ unfinished' = unfinished - 1
    /\ wpc' = [wpc EXCEPT ![w] = "release"]
    /\ UNCHANGED <<streamvars, clockvars>>
    /\ UNCHANGED <<num_requests, concurrency, mainpc, preflight, semaphore,
                   queue, results, task_id, result, dequeued, inflight,
                   absent, failed, requests_issued, report>>

\* End of the async with block: __aexit__ releases, the loop goes round.
Release(w) ==
    /\ wpc[w] = "release"
    /\ semaphore' = semaphore + 1
    /\ wpc' = [wpc EXCEPT ![w] = "acquire"]
    /\ UNCHANGED <<streamvars, clockvars>>
    /\ UNCHANGED <<num_requests, concurrency, mainpc, preflight, queue,
                   unfinished, results, task_id, result, dequeued, inflight,
                   absent, failed, requests_issued, report>>

\* break out of the async with block: __aexit__ releases, the worker returns.
ExitKeepingPermit(w) ==
    /\ wpc[w] = "exit"
    /\ wpc' = [wpc EXCEPT ![w] = "done"]
    /\ UNCHANGED <<streamvars, clockvars>>
    /\ UNCHANGED <<num_requests, concurrency, mainpc, preflight, semaphore,
                   queue, unfinished, results, task_id, result, dequeued,
                   inflight, absent, failed, requests_issued, report>>

Exit(w) ==
    /\ wpc[w] = "exit"
    /\ semaphore' = semaphore + 1
    /\ wpc' = [wpc EXCEPT ![w] = "done"]
    /\ UNCHANGED <<streamvars, clockvars>>
    /\ UNCHANGED <<num_requests, concurrency, mainpc, preflight, queue,
                   unfinished, results, task_id, result, dequeued, inflight,
                   absent, failed, requests_issued, report>>

Next ==
    \/ MainStart
    \/ PreflightReturn
    \/ RecordStart
    \/ MainJoin
    \/ MainGather
    \/ \E w \in AllWorkers : Acquire(w)
    \/ \E w \in AllWorkers : Get(w)
    \/ \E w \in AllWorkers : RequestReturn(w)
    \/ \E w \in AllWorkers : Handle(w)
    \/ \E w \in AllWorkers : Ack(w)
    \/ \E w \in AllWorkers : Release(w)
    \/ \E w \in AllWorkers : Exit(w)

Spec == Init /\ [][Next]_vars

\* Every request returns and the event loop runs every ready task.
FairSpec == Spec /\ WF_vars(Next)

(***************************************************************************)
(* The metrics of a drained run (specification MetricsSpec).  The run has  *)
(* reached the return of gather with any list of make_request results in   *)
(* `results`: a request may have returned any number of tokens, and the    *)
(* wall clock it read at its end may be behind the one it read at its      *)
(* start.  One worker has served the whole queue.                          *)
(***************************************************************************)
SampleResponses ==
    { [kind |-> "ok", start_time |-> 2,
       first_token_time |-> IF k = 0 THEN None ELSE <<e>>,
       total_tokens |-> k, end_time |-> e] : k \in 0..2, e \in 1..4 }

Samples == {make_request(resp) : resp \in SampleResponses}

SampleLists == UNION {[1..n -> Samples] : n \in 0..MaxRequests}

MetricsInit ==
    /\ \E rs \in SampleLists :
         /\ num_requests = Len(rs)
         /\ concurrency = 1
         /\ mainpc = "gather"
         /\ preflight = <<TRUE>>
         /\ semaphore = semaphore_value(1)
         /\ queue = <<>>
         /\ unfinished = 0
         /\ results = rs
         /\ wpc = [w \in AllWorkers |-> IF w = 1 THEN "done" ELSE "uncreated"]
         /\ task_id = [w \in AllWorkers |-> None]
         /\ result = [w \in AllWorkers |->
                        IF w = 1 /\ rs # <<>> THEN rs[Len(rs)] ELSE None]
         /\ dequeued = [w \in AllWorkers |->
                          IF w = 1 THEN build_queue(Len(rs), 1) ELSE <<>>]
         /\ inflight = {}
         /\ absent = {}
         /\ failed = {}
         /\ requests_issued = Len(rs) + 1
         /\ report = None
         /\ main_start_time = <<1>>
         /\ main_end_time = None
    /\ RequestInit(<<>>, 1)

MetricsNext == MainGather

MetricsSpec == MetricsInit /\ [][MetricsNext]_vars

(***************************************************************************)
(* One call of make_request, fragment by fragment (specification           *)
(* StreamSpec).  A fragment is chunk.choices[0]: delta.content is None, "" *)
(* or text, finish_reason is None or a reason.  The clock advances while   *)
(* make_request awaits the client.                                         *)
(***************************************************************************)
Contents == {None, <<"">>, <<"tok">>}
FinishReasons == {None, <<"stop">>}
Fragment == [content : Contents, finish_reason : FinishReasons]
Streams == UNION {[1..n -> Fragment] : n \in 0..MaxFragments}
Delays == 0..MaxDelay

\* The truth value of `chunk.choices[0].delta.content`.
truthy_content(c) == c # None /\ c[1] # ""

\* if chunk.choices[0].delta.content: total_tokens += 1 (lines 48-49)
count_content_unless_finished(total, chunk) ==
    IF chunk.finish_reason = None /\ truthy_content(chunk.content)
    THEN total + 1 ELSE total

count_content(total, chunk) ==
    IF truthy_content(chunk.content) THEN total + 1 ELSE total

\* if first_token_time is None: first_token_time = time.time() (lines 46-47)
note_latest(ftt, t) == <<t>>

note_first(ftt, t) == IF ftt = None THEN <<t>> ELSE ftt

\* asyncio.wait_for(process_stream(stream), timeout=request_timeout) lets
\* process_stream run at clock reading t (lines 68-70).
within_timeout_unbounded(t) == TRUE

within_timeout(t) == t - consume_start[1] <= request_timeout

\* What make_request returns, given how the awaited calls ended.
Returned(kind, end) ==
    make_request([kind |-> kind, start_time |-> start_time[1],
                  first_token_time |-> first_token_time',
                  total_tokens |-> total_tokens', end_time |-> end])

StreamInit ==
    /\ RunInit(0, 0)
    /\ \E s \in Streams, t \in 1..MaxTimeout : RequestInit(s, t)

\* start_time = time.time(); the request is sent (lines 58-67).
Issue ==
    /\ mrpc = "start"
    /\ start_time' = <<now>>
    /\ mrpc' = "create"
    /\ UNCHANGED <<stream, request_timeout, now, consume_start, pos,
                   first_token_time, total_tokens, mr_result, mr_log,
                   arrivals>>
    /\ UNCHANGED runvars

\* create() returns the stream; wait_for(process_stream(stream)) starts.
CreateReturns ==
    /\ mrpc = "create"
    /\ \E d \in Delays : now' = now + d
    /\ consume_start' = <<now'>>
    /\ mrpc' = "consume"
    /\ UNCHANGED <<stream, request_timeout, start_time, pos,
                   first_token_time, total_tokens, mr_result, mr_log,
                   arrivals>>
    /\ UNCHANGED runvars

\* create() or the stream raises an exception other than a timeout.
ClientRaises ==
    /\ mrpc \in {"create", "consume"}
    /\ \E d \in Delays : now' = now + d
    /\ (mrpc = "consume" => within_timeout(now'))
    /\ UNCHANGED <<first_token_time, total_tokens>>
    /\ mr_result' = <<Returned("error", now')>>
    /\ mr_log' = <<"error">>
    /\ UNCHANGED arrivals
    /\ mrpc' = "returned"
    /\ UNCHANGED <<stream, request_timeout, start_time, consume_start, pos>>
    /\ UNCHANGED runvars

\* The async for receives the next fragment (lines 45-51); on a
\* finish_reason process_stream returns and make_request computes its tuple.
ConsumeChunk ==
    /\ mrpc = "consume"
    /\ pos < Len(stream)
    /\ \E d \in Delays : now' = now + d
    /\ within_timeout(now')
    /\ LET chunk == stream[pos + 1] IN
         /\ pos' = pos + 1
         /\ arrivals' = Append(arrivals, now')
         /\ first_token_time' = note_first(first_token_time, now')
         /\ total_tokens' = count_content(total_tokens, chunk)
         /\ IF chunk.finish_reason # None
            THEN /\ mr_result' = <<Returned("ok", now')>>
                 /\ mrpc' = "returned"
            ELSE UNCHANGED <<mr_result, mrpc>>
    /\ UNCHANGED <<stream, request_timeout, start_time, consume_start, mr_log>>
    /\ UNCHANGED runvars

\* The stream ends without a finish_reason: the async for is exhausted.
StreamEnds ==
    /\ mrpc = "consume"
    /\ pos = Len(stream)
    /\ \E d \in Delays : now' = now + d
    /\ within_timeout(now')
    /\ UNCHANGED <<first_token_time, total_tokens>>
    /\ mr_result' = <<Returned("ok", now')>>
    /\ mrpc' = "returned"
    /\ UNCHANGED <<stream, request_timeout, start_time, consume_start, pos,
                   mr_log, arrivals>>
    /\ UNCHANGED runvars

\* wait_for's timeout expires before process_stream has returned.
TimesOut ==
    /\ mrpc = "consume"
    /\ \E d \in Delays : now + d - consume_start[1] >= request_timeout
    /\ now' = consume_start[1] + request_timeout
    /\ UNCHANGED <<first_token_time, total_tokens>>
    /\ mr_result' = <<Returned("timeout", now')>>
    /\ mr_log' = <<"timed out">>
    /\ UNCHANGED arrivals
    /\ mrpc' = "returned"
    /\ UNCHANGED <<stream, request_timeout, start_time, consume_start, pos>>
    /\ UNCHANGED runvars

StreamNext ==
    \/ Issue
    \/ CreateReturns
    \/ ClientRaises
    \/ ConsumeChunk
    \/ StreamEnds
    \/ TimesOut

StreamSpec == StreamInit /\ [][StreamNext]_vars

(***************************************************************************)
(* Properties of the run (specification Spec unless said otherwise).       *)
(***************************************************************************)
\* Entry x has been handed out by queue.get() to some worker.
Dequeued(x) ==
    \E w \in AllWorkers : \E i \in DOMAIN dequeued[w] : dequeued[w][i] = x

\* No task index has been handed out twice, to one worker or to two.
NoTaskTwice ==
    \A w \in AllWorkers : \A v \in AllWorkers :
        \A i \in DOMAIN dequeued[w] : \A j \in DOMAIN dequeued[v] :
            (dequeued[w][i] = dequeued[v][j] /\ dequeued[w][i] # Sentinel)
                => (w = v /\ i = j)

\* The places of the sentinels among the entries worker w has dequeued.
Sentinels(w) == {i \in DOMAIN dequeued[w] : dequeued[w][i] = Sentinel}

RunCompleted == mainpc = "reported"

\* C1: no task index is dequeued twice and no worker dequeues two
\* sentinels, and when the run has completed every task index 0..N-1 has
\* been dequeued (so exactly once) and each of the C workers has dequeued
\* one sentinel (so exactly C sentinels, by C different workers), nothing
\* having been dequeued by anyone else.
C1_ExactlyOnceDelivery ==
    /\ NoTaskTwice
    /\ \A w \in AllWorkers : Cardinality(Sentinels(w)) <= 1
    /\ RunCompleted =>
         /\ \A t \in Tasks : Dequeued(t)
         /\ \A w \in Workers : Cardinality(Sentinels(w)) = 1
         /\ \A w \in AllWorkers \ Workers : dequeued[w] = <<>>

C1_Witness ==
    /\ RunCompleted
    /\ num_requests = MaxRequests
    /\ concurrency = 2
    /\ \A w \in Workers : Len(dequeued[w]) >= 2

\* C2: at any moment at most C calls of make_request for tasks are in
\* flight, and they are exactly the calls the workers are awaiting.
C2_InFlightAtMostC ==
    /\ Cardinality(inflight) <= concurrency
    /\ inflight = {task_id[w][1] : w \in {v \in AllWorkers : wpc[v] = "request"}}

C2_Witness ==
    /\ num_requests > concurrency
    /\ concurrency >= 2
    /\ Cardinality(inflight) = concurrency

\* C3: when the run has completed and k calls of make_request returned
\* None, results holds N - k entries and exactly those k tasks were logged
\* as failed, so successful_requests plus the logged failures is
\* total_requests, which is N.
C3_SuccessesPlusFailuresIsN ==
    RunCompleted =>
        /\ Len(results) = num_requests - Cardinality(absent)
        /\ failed = absent
        /\ report[1].successful_requests = Len(results)
        /\ report[1].total_requests = num_requests
        /\ report[1].successful_requests + Cardinality(failed)
             = report[1].total_requests

C3_Witness ==
    /\ RunCompleted
    /\ Cardinality(absent) >= 1
    /\ Len(results) >= 1
    /\ Cardinality(absent) + Len(results) = MaxRequests

\* C4: main is past the drain wait (queue.join and gather) only when all N
\* tasks and all C sentinels have been dequeued and acknowledged, the queue
\* is empty and every one of the C workers has exited.
C4_ReturnOnlyWhenDrained ==
    RunCompleted =>
        /\ queue = <<>>
        /\ unfinished = 0
        /\ \A t \in Tasks : Dequeued(t)
        /\ \A w \in Workers :
             /\ wpc[w] = "done"
             /\ dequeued[w] # <<>>
             /\ dequeued[w][Len(dequeued[w])] = Sentinel
        /\ inflight = {}

C4_Witness ==
    /\ RunCompleted
    /\ num_requests >= 2
    /\ concurrency >= 2
    /\ report # None

\* C5 (as claimed; specification FairSpec): once the preflight check has
\* succeeded the run eventually returns a report, whatever N and C are.
C5_ReportEventually ==
    (preflight = <<TRUE>>) ~> (report # None)

\* C6: if the preflight request returned None, main returns no report, no
\* task or sentinel is ever enqueued, no worker is ever created and no
\* request beyond the preflight one is ever issued; and nothing is enqueued
\* while the preflight request has not returned.
C6_PreflightGatesTheRun ==
    /\ preflight = <<FALSE>> =>
         /\ mainpc = "aborted"
         /\ report = None
         /\ queue = <<>>
         /\ unfinished = 0
         /\ \A w \in AllWorkers : wpc[w] = "uncreated" /\ dequeued[w] = <<>>
         /\ requests_issued = 1
         /\ inflight = {}
    /\ preflight = None =>
         /\ queue = <<>>
         /\ unfinished = 0
         /\ \A w \in AllWorkers : wpc[w] = "uncreated"
         /\ requests_issued <= 1

C6_Witness ==
    /\ preflight = <<FALSE>>
    /\ mainpc = "aborted"
    /\ num_requests >= 1
    /\ concurrency >= 1

\* The order in which a worker passes through its positions.
WorkerFlow ==
    { <<"uncreated", "acquire">>, <<"acquire", "get">>, <<"get", "request">>,
      <<"get", "exit">>, <<"request", "returned">>, <<"returned", "ack">>,
      <<"ack", "release">>, <<"release", "acquire">>, <<"exit", "done">> }

\* C7: when a request of worker w ends, by timeout, by any other failure or
\* normally, the worker holds either None or a result tuple and is still
\* running; a request that ended in None changes neither the result list,
\* the queue, the permits, nor any other worker's position, task or result,
\* and takes only itself out of the in-flight set.  No worker ever ends
\* otherwise than by dequeuing a sentinel, and from the return of its
\* request a worker moves through acknowledge and release to the next
\* queue.get() without ever finding the semaphore or the queue empty.
C7_FailureStaysInOneRequest ==
    /\ [](\A w \in AllWorkers :
            /\ wpc[w] # "crashed"
            /\ wpc[w] = "acquire" => semaphore > 0
            /\ wpc[w] = "get" => queue # <<>>)
    /\ [][\A w \in AllWorkers :
            /\ wpc'[w] # wpc[w] => <<wpc[w], wpc'[w]>> \in WorkerFlow
            /\ (wpc[w] = "request" /\ wpc'[w] # "request") =>
                 /\ Len(result'[w]) \in {0, 4}
                 /\ result'[w] = None =>
                      /\ results' = results
                      /\ semaphore' = semaphore
                      /\ unfinished' = unfinished
                      /\ queue' = queue
                      /\ inflight' = inflight \ {task_id[w][1]}
                      /\ \A v \in AllWorkers \ {w} :
                           /\ wpc'[v] = wpc[v]
                           /\ task_id'[v] = task_id[v]
                           /\ result'[v] = result[v]
            /\ (wpc[w] = "get" /\ wpc'[w] = "exit") =>
                 Head(queue) = Sentinel]_vars

C7_Witness ==
    \E w \in Workers :
        /\ Len(dequeued[w]) >= 2
        /\ task_id[w] # None
        /\ dequeued[w][Len(dequeued[w]) - 1] \in absent
        /\ \E v \in Workers \ {w} : wpc[v] = "request"

\* The positions between __aenter__ and __aexit__ of `async with semaphore`.
InAsyncWith(w) ==
    wpc[w] \in {"get", "request", "returned", "ack", "release", "exit"}

\* C8: the permits taken from the semaphore are exactly those of the
\* workers that are between acquiring (before queue.get) and the end of
\* their loop body (after make_request has returned and been handled, or
\* their exit on a sentinel); so at most C permits are held, and all C are
\* free again once the run has completed.
C8_PermitHeldAcrossRequest ==
    mainpc \in {"join", "gather", "reported"} =>
        /\ semaphore \in 0..concurrency
        /\ concurrency - semaphore
             = Cardinality({w \in AllWorkers : InAsyncWith(w)})
        /\ RunCompleted => semaphore = concurrency

C8_Witness ==
    /\ RunCompleted
    /\ concurrency >= 2
    /\ num_requests >= 2
    /\ absent # {}
    /\ results # <<>>
    /\ semaphore = concurrency

\* C9: results never holds more than N entries; it changes only by an
\* append of the non-None tuple some worker has just received from
\* make_request; and the step of a worker holding None leaves it unchanged.
C9_ResultsOnlyGrowBySuccess ==
    /\ [](Len(results) <= num_requests)
    /\ [][/\ results' # results =>
               \E w \in AllWorkers :
                   /\ wpc[w] = "returned"
                   /\ wpc'[w] # "returned"
                   /\ result[w] # None
                   /\ Len(result[w]) = 4
                   /\ task_id[w][1] \notin absent
                   /\ results' = Append(results, result[w])
          /\ \A w \in AllWorkers :
               (wpc[w] = "returned" /\ wpc'[w] # "returned"
                   /\ result[w] = None) => results' = results]_vars

C9_Witness ==
    /\ Len(results) = num_requests - 1
    /\ num_requests = MaxRequests
    /\ Cardinality(failed) = 1
    /\ RunCompleted

(***************************************************************************)
(* Properties of one request (specification StreamSpec).                   *)
(***************************************************************************)
\* Index of the first fragment with a finish_reason, or the length of the
\* stream when there is none.
StopIndex(s) ==
    LET T == {i \in 1..Len(s) : s[i].finish_reason # None}
    IN  IF T = {} THEN Len(s) ELSE CHOOSE i \in T : \A k \in T : i <= k

\* Number of fragments among the first n that carry non-empty content.
ContentCount(s, n) ==
    Cardinality({i \in 1..n : s[i].content \notin {None, <<"">>}})

ReaderReturned == mrpc = "returned" /\ mr_result[1] # None

\* C10: the reader never receives a fragment after the first one with a
\* finish_reason, its count is always the number of received fragments with
\* non-empty content, and when it returns it has received every fragment up
\* to and including the first terminal one (all of them if none is
\* terminal) and make_request reports that count as total_tokens.
C10_ReaderStopsAtTerminal ==
    /\ pos <= StopIndex(stream)
    /\ total_tokens = ContentCount(stream, pos)
    /\ ReaderReturned =>
         /\ pos = StopIndex(stream)
         /\ mr_result[1][1] = ContentCount(stream, StopIndex(stream))

C10_Witness ==
    /\ ReaderReturned
    /\ StopIndex(stream) < Len(stream)
    /\ stream[StopIndex(stream)].content = <<"tok">>
    /\ stream[Len(stream)].content = <<"tok">>
    /\ mr_result[1][1] = 2

(***************************************************************************)
(* Time to first token.                                                    *)
(***************************************************************************)
\* Positions of the received fragments that carry no finish_reason.
NonTerminal == {i \in 1..pos : stream[i].finish_reason = None}

C12_NoIncrementNoTTFT ==
    (ReaderReturned /\ mr_result[1][1] = 0) => mr_result[1][4] = None

(***************************************************************************)
(* The request timeout.                                                    *)
(***************************************************************************)
\* C20: the timeout runs from the moment create() returned the stream:
\* nothing times out before that, a timed-out request returns absent
\* exactly request_timeout after it, and neither a consumption in progress
\* nor one that produced a result has lasted longer than request_timeout.
\* The result's elapsed_time, measured from before create(), is not bounded
\* by request_timeout (C20_Witness).
C20_TimeoutBoundsConsumption ==
    /\ mr_log = <<"timed out">> =>
         /\ consume_start # None
         /\ mr_result = <<None>>
         /\ now = consume_start[1] + request_timeout
    /\ mrpc = "consume" => now - consume_start[1] <= request_timeout
    /\ (ReaderReturned /\ consume_start # None) =>
         start_time[1] + mr_result[1][2] - consume_start[1] <= request_timeout

C20_Witness ==
    /\ ReaderReturned
    /\ mr_result[1][2] > request_timeout
    /\ start_time[1] + mr_result[1][2] - consume_start[1] <= request_timeout

(***************************************************************************)
(* Metrics.                                                                *)
(***************************************************************************)
Zero == Rat(0)

\* C13: the tokens_per_second of every result is 0 when its elapsed_time is
\* zero or negative and total_tokens / elapsed_time otherwise, and the
\* requests_per_second of the report is 0 when end_time - start_time of the
\* run is zero or negative and successful_requests / total time otherwise.
C13_NonPositiveElapsedGivesZero ==
    /\ \A i \in DOMAIN results :
         results[i][3] = IF results[i][2] <= 0 THEN Zero
                         ELSE <<results[i][1], results[i][2]>>
    /\ report # None =>
         /\ report[1].total_time = main_end_time[1] - main_start_time[1]
         /\ report[1].requests_per_second =
                IF report[1].total_time <= 0 THEN Zero
                ELSE <<Len(results), report[1].total_time>>

C13_Witness ==
    /\ report # None
    /\ report[1].total_time < 0
    /\ report[1].requests_per_second = Zero
    /\ \E i \in DOMAIN results :
         results[i][1] > 0 /\ results[i][2] = 0 /\ results[i][3] = Zero
    /\ \E i \in DOMAIN results :
         results[i][1] > 0 /\ results[i][2] < 0 /\ results[i][3] = Zero
    /\ \E i \in DOMAIN results : results[i][3] = <<1, 2>>

EmptyBlock == [average |-> Zero, p50 |-> None, p95 |-> None, p99 |-> None]

\* C14: a run that has completed with nothing in results has returned a
\* report whose successful_requests and total_completion_tokens are 0 and
\* in whose three blocks the average is 0 and p50, p95, p99 are None.
C14_EmptySampleSetStillReports ==
    (RunCompleted /\ results = <<>>) =>
        /\ report # None
        /\ report[1].successful_requests = 0
        /\ report[1].total_completion_tokens = 0
        /\ RatEq(report[1].requests_per_second, Zero)
        /\ report[1].latency = EmptyBlock
        /\ report[1].tokens_per_second = EmptyBlock
        /\ report[1].time_to_first_token = EmptyBlock

C14_Witness ==
    /\ RunCompleted
    /\ results = <<>>
    /\ num_requests >= 2
    /\ absent = Tasks
    /\ report[1].total_requests = num_requests
    /\ report[1].latency = EmptyBlock

\* C15: in the report of a run with at least one result, the latency
\* percentiles are ordered p50 <= p95 <= p99, and the tokens_per_second
\* percentiles are the 50th, 5th and 1st percentiles of the throughput
\* samples, hence ordered p50 >= p95 >= p99.
C15_PercentilesAreMonotonic ==
    (report # None /\ results # <<>>) =>
        LET l == report[1].latency
            t == report[1].tokens_per_second
            tps == tokens_per_second_list(results)
        IN  /\ RatLeq(l.p50, l.p95)
            /\ RatLeq(l.p95, l.p99)
            /\ t.p50 = numpy_percentile(tps, 50)
            /\ t.p95 = numpy_percentile(tps, 5)
            /\ t.p99 = numpy_percentile(tps, 1)
            /\ RatLeq(t.p95, t.p50)
            /\ RatLeq(t.p99, t.p95)

C15_Witness ==
    /\ report # None
    /\ Len(results) = 3
    /\ LET l == report[1].latency
           t == report[1].tokens_per_second
       IN  /\ ~RatLeq(l.p95, l.p50)
           /\ ~RatLeq(l.p99, l.p95)
           /\ ~RatLeq(t.p50, t.p95)
           /\ ~RatLeq(t.p95, t.p99)

(***************************************************************************)
(* Order of the run.                                                       *)
(***************************************************************************)
AllTasksDequeued == \A t \in Tasks : Dequeued(t)

\* C16: in the queue no sentinel stands before a task, so a sentinel has
\* been dequeued, and a worker has left its loop, only when all N tasks
\* have been dequeued; and what one worker has dequeued is a strictly
\* increasing run of task indices followed by at most one sentinel.
C16_TasksBeforeSentinels ==
    /\ \A i \in DOMAIN queue : \A j \in DOMAIN queue :
         (i < j /\ queue[i] = Sentinel) => queue[j] = Sentinel
    /\ (\E w \in AllWorkers : Sentinels(w) # {}) => AllTasksDequeued
    /\ \A w \in AllWorkers : wpc[w] \in {"exit", "done"} => AllTasksDequeued
    /\ \A w \in AllWorkers :
         \A i \in DOMAIN dequeued[w] : \A j \in DOMAIN dequeued[w] :
             i < j => /\ dequeued[w][i] # Sentinel
                      /\ dequeued[w][j] # Sentinel
                            => dequeued[w][i] < dequeued[w][j]

C16_Witness ==
    /\ RunCompleted
    /\ num_requests = MaxRequests
    /\ \E w \in Workers : \E v \in Workers :
         /\ w # v
         /\ Len(dequeued[w]) >= 3
         /\ Len(dequeued[v]) >= 2

\* The workers that hold a permit: between `async with semaphore` entered
\* and left.
Holders == {w \in AllWorkers : InAsyncWith(w)}

\* C17: once the semaphore exists, the permits taken from it are as many as
\* the workers inside the async with block, never more than C, and a worker
\* that is about to acquire always finds a permit free, so the guard of
\* acquire never holds a worker back.
C17_CeilingIsRedundant ==
    mainpc \in {"created", "join", "gather", "reported"} =>
        /\ concurrency - semaphore = Cardinality(Holders)
        /\ Cardinality(Holders) <= concurrency
        /\ \A w \in AllWorkers : wpc[w] = "acquire" => semaphore >= 1

C17_Witness ==
    /\ Cardinality(Holders) = MaxConcurrency
    /\ semaphore = 0
    /\ \A w \in Holders : wpc[w] = "request"

\* The tasks whose request has returned a result that its worker has
\* appended to results.
Appended ==
    {t \in Tasks :
        /\ Dequeued(t)
        /\ t \notin inflight
        /\ t \notin absent
        /\ \A w \in AllWorkers :
             ~(wpc[w] = "returned" /\ task_id[w] = <<t>>)}

\* C18: results holds one entry for each request that has returned a result
\* and been handled; a task that has been acknowledged has been handled
\* before; so once queue.join() has returned results holds the result of
\* every request that did not return None, and it does not change any more.
C18_SampleSetFinalAtDrain ==
    /\ [](/\ Len(results) = Cardinality(Appended)
          /\ mainpc \in {"created", "join", "gather", "reported"} =>
               unfinished = Len(queue) + Cardinality(
                   {w \in AllWorkers : wpc[w] \in {"request", "returned", "ack"}})
          /\ mainpc \in {"gather", "reported"} =>
               /\ inflight = {}
               /\ Len(results) = num_requests - Cardinality(absent))
    /\ [][(mainpc \in {"gather", "reported"}) => (results' = results)]_vars

C18_Witness ==
    /\ mainpc = "gather"
    /\ main_end_time = None
    /\ Len(results) >= 2
    /\ absent # {}
    /\ \E w \in Workers : wpc[w] \in {"release", "exit", "acquire", "get"}

\* C19: until main has read the start time no worker has dequeued anything
\* and only the preflight request has been issued, and that one has
\* returned; when main reads the end time every task has been dequeued, all
\* N requests have been issued and have returned, and every worker is done.
C19_ClockBracketsTheRun ==
    /\ main_start_time = None =>
         /\ \A w \in AllWorkers : dequeued[w] = <<>>
         /\ inflight = {}
         /\ requests_issued <= 1
    /\ main_start_time # None =>
         /\ preflight = <<TRUE>>
         /\ requests_issued >= 1
    /\ main_end_time # None =>
         /\ main_start_time # None
         /\ AllTasksDequeued
         /\ inflight = {}
         /\ requests_issued = num_requests + 1
         /\ \A w \in Workers : wpc[w] = "done"

C19_Witness ==
    /\ main_end_time # None
    /\ main_start_time # None
    /\ num_requests >= 2
    /\ concurrency >= 2
    /\ report[1].total_time = main_end_time[1] - main_start_time[1]

====
